---- MODULE Spec2Model ----
(***************************************************************************)
(* Dockwright: configuration resolution, validation and the sequential    *)
(* deploy pipeline (configure, confirm, validate, docker workflow, helm    *)
(* workflow, complete).                                                    *)
(*                                                                         *)
(* A Go string is a sequence of one-character strings, so that trimming,   *)
(* splitting, case mapping, concatenation and path joining are computed    *)
(* and not assumed.  Names that the code only uses as keys (field names,   *)
(* flag names, config paths, environment variable names, step names) are   *)
(* plain TLA+ strings.                                                     *)
(***************************************************************************)
EXTENDS Integers, Sequences, FiniteSets, TLC

VARIABLES
    cli,        \* per run: flag name -> what the user typed (or untouched)
    file,       \* .dockwright/config.yaml as parsed by viper: path -> value
    osenv,      \* environment variables of the process
    wd,         \* the working directory as os.Getwd reports it
    fs,         \* the filesystem: path -> file (the domain is what exists)
    tools,      \* the toolchain: docker/helm on PATH, docker daemon up
    stdin,      \* per run: what is left to read on standard input
    pc,         \* per run: position of runDeploy
    cfg,        \* per run: the *Config that LoadConfig fills
    resolved,   \* per run: field name -> the string resolveFieldValue returned
    results,    \* per run: the []ValidationResult ValidateAll has built
    imageTag,   \* per run: the imageTag local of DockerRunner.Run
    valuesFiles,\* per run: what collectValuesFiles returned
    helmArgs,   \* per run: the args HelmRunner.execute ran or planned
    procs,      \* per run: processes spawned so far, in order
    planned,    \* per run: commands logged as [DRY-RUN] Would run
    stages,     \* per run: the stages started so far, with their status
    err,        \* per run: the error runDeploy returned (empty: nil)
    exitCode    \* per run: -1 while running, then the process exit status

vars == <<cli, file, osenv, wd, fs, tools, stdin, pc, cfg, resolved, results,
          imageTag, valuesFiles, helmArgs, procs, planned, stages, err, exitCode>>

---------------------------------------------------------------------------
(* Bounds of the model. *)

\* Inputs of one behaviour differ from the documented setup in at most this
\* many places (flags, config keys, environment variables, files, tools).
MaxVaried == 2

\* Longest flag value enumerated character by character.
MaxLen == 5

Runs == {1, 2}

---------------------------------------------------------------------------
(* String literals of the source. *)

sEmpty == <<>>
sTrue == <<"t", "r", "u", "e">>
sFalse == <<"f", "a", "l", "s", "e">>
sOne == <<"1">>
sYes == <<"y", "e", "s">>
sComma == <<",">>
sStateful == <<"s", "t", "a", "t", "e", "f", "u", "l">>
sStateless == <<"s", "t", "a", "t", "e", "l", "e", "s", "s">>
sDockerfile == <<"D", "o", "c", "k", "e", "r", "f", "i", "l", "e">>
sDotDockwright == <<".", "d", "o", "c", "k", "w", "r", "i", "g", "h", "t">>
sHelmDir == <<"h", "e", "l", "m">>
sValuesYaml == <<"v", "a", "l", "u", "e", "s", ".", "y", "a", "m", "l">>
sDotValuesYaml == <<".", "v", "a", "l", "u", "e", "s", ".", "y", "a", "m", "l">>
sChartsRoot == <<"/", "u", "s", "r", "/", "l", "o", "c", "a", "l", "/", "s", "h", "a", "r", "e", "/", "d", "o", "c", "k", "w", "r", "i", "g", "h", "t", "/", "c", "h", "a", "r", "t", "s">>
sDotKube == <<".", "k", "u", "b", "e">>
sConfig == <<"c", "o", "n", "f", "i", "g">>
sSlash == <<"/">>
sColonLatest == <<":", "l", "a", "t", "e", "s", "t">>
sDocker == <<"d", "o", "c", "k", "e", "r">>
sHelm == <<"h", "e", "l", "m">>
sBuild == <<"b", "u", "i", "l", "d">>
sDashT == <<"-", "t">>
sDot == <<".">>
sLogin == <<"l", "o", "g", "i", "n">>
sDashU == <<"-", "u">>
sPasswordStdin == <<"-", "-", "p", "a", "s", "s", "w", "o", "r", "d", "-", "s", "t", "d", "i", "n">>
sPush == <<"p", "u", "s", "h">>
sInfo == <<"i", "n", "f", "o">>
sUpgrade == <<"u", "p", "g", "r", "a", "d", "e">>
sInstall == <<"-", "-", "i", "n", "s", "t", "a", "l", "l">>
sKubeconfigFlag == <<"-", "-", "k", "u", "b", "e", "c", "o", "n", "f", "i", "g">>
sKubeContextFlag == <<"-", "-", "k", "u", "b", "e", "-", "c", "o", "n", "t", "e", "x", "t">>
sValuesFlag == <<"-", "-", "v", "a", "l", "u", "e", "s">>
sSetFlag == <<"-", "-", "s", "e", "t">>
sImageRepositoryEq == <<"i", "m", "a", "g", "e", ".", "r", "e", "p", "o", "s", "i", "t", "o", "r", "y", "=">>
sImageTagLatest == <<"i", "m", "a", "g", "e", ".", "t", "a", "g", "=", "l", "a", "t", "e", "s", "t">>
sDryRunFlag == <<"-", "-", "d", "r", "y", "-", "r", "u", "n">>
sNewline == <<"\n">>

---------------------------------------------------------------------------
(* Go library functions the source calls, on character sequences. *)

UpperCase == <<"A", "B", "C", "D", "E", "F", "G", "H", "I", "J", "K", "L", "M",
               "N", "O", "P", "Q", "R", "S", "T", "U", "V", "W", "X", "Y", "Z">>
LowerCase == <<"a", "b", "c", "d", "e", "f", "g", "h", "i", "j", "k", "l", "m",
               "n", "o", "p", "q", "r", "s", "t", "u", "v", "w", "x", "y", "z">>
WhiteSpace == {" ", "\t", "\n", "\r", "\f"}
Digits == <<"0", "1", "2", "3", "4", "5", "6", "7", "8", "9">>

SetMin(S) == CHOOSE x \in S : \A y \in S : x <= y

ToLowerChar(c) ==
    IF \E i \in 1..Len(UpperCase) : UpperCase[i] = c
    THEN LowerCase[CHOOSE i \in 1..Len(UpperCase) : UpperCase[i] = c]
    ELSE c

\* strings.ToLower
ToLower(s) == [i \in 1..Len(s) |-> ToLowerChar(s[i])]

RECURSIVE TrimLeft(_)
TrimLeft(s) ==
    IF s # <<>> /\ Head(s) \in WhiteSpace THEN TrimLeft(Tail(s)) ELSE s

RECURSIVE TrimRight(_)
TrimRight(s) ==
    IF s # <<>> /\ s[Len(s)] \in WhiteSpace
    THEN TrimRight(SubSeq(s, 1, Len(s) - 1))
    ELSE s

\* strings.TrimSpace
TrimSpace(s) == TrimRight(TrimLeft(s))

\* strings.Split(s, sep) for a non-empty separator: always at least one part.
RECURSIVE Split(_, _)
Split(s, sep) ==
    LET n == Len(sep)
        hits == {i \in 1..(Len(s) - n + 1) : SubSeq(s, i, i + n - 1) = sep}
    IN  IF hits = {}
        THEN <<s>>
        ELSE LET i == SetMin(hits)
             IN  <<SubSeq(s, 1, i - 1)>> \o Split(SubSeq(s, i + n, Len(s)), sep)

\* strconv.Itoa for a non-negative integer
RECURSIVE Itoa(_)
Itoa(n) ==
    IF n < 10 THEN <<Digits[n + 1]>>
    ELSE Itoa(n \div 10) \o <<Digits[(n % 10) + 1]>>

\* filepath.Join: empty elements are dropped, the rest joined by "/" (the
\* elements used here hold no ".", ".." or doubled separators for Clean to
\* rewrite).
RECURSIVE Join(_)
Join(elems) ==
    IF elems = <<>> THEN <<>>
    ELSE LET rest == Join(Tail(elems))
         IN  IF Head(elems) = <<>> THEN rest
             ELSE IF rest = <<>> THEN Head(elems)
             ELSE Head(elems) \o sSlash \o rest

\* filepath.Base: the last element of a path, trailing slashes removed.
RECURSIVE Base(_)
Base(p) ==
    IF p = <<>> THEN sDot
    ELSE IF p = sSlash THEN sSlash
    ELSE IF p[Len(p)] = "/" THEN Base(SubSeq(p, 1, Len(p) - 1))
    ELSE LET slashes == {i \in 1..Len(p) : p[i] = "/"}
         IN  IF slashes = {} THEN p
             ELSE SubSeq(p, (CHOOSE i \in slashes : \A j \in slashes : j <= i) + 1, Len(p))

---------------------------------------------------------------------------
(* Values of the YAML configuration file, as viper holds them. *)

NotSet == [t |-> "unset"]
YStr(s) == [t |-> "str", s |-> s]
YBool(b) == [t |-> "bool", b |-> b]
YInt(n) == [t |-> "int", n |-> n]
YList(l) == [t |-> "list", l |-> l]

\* viper.IsSet
IsSet(path) == file[path] # NotSet

\* viper.GetString: cast.ToString of the stored value; a value that is no
\* scalar (a YAML sequence) does not cast and yields "".
GetString(path) ==
    LET v == file[path]
    IN  CASE v.t = "str" -> v.s
          [] v.t = "bool" -> (IF v.b THEN sTrue ELSE sFalse)
          [] v.t = "int" -> Itoa(v.n)
          [] OTHER -> sEmpty

---------------------------------------------------------------------------
(* The environment the defaults read. *)

Getenv(name) == osenv[name]

Exists(path) == path \in DOMAIN fs

\* os.ReadFile succeeds on an existing regular file
Readable(path) == Exists(path) /\ fs[path].kind # "dir"

defaultKubeConfigPath ==
    IF Getenv("HOME") = sEmpty THEN sEmpty
    ELSE Join(<<Getenv("HOME"), sDotKube, sConfig>>)

currentKubeContext ==
    LET path == defaultKubeConfigPath
    IN  IF ~Readable(path) THEN sEmpty
        ELSE IF fs[path].kind # "yaml" THEN sEmpty
        ELSE fs[path].current

currentDirName == IF ~wd.ok THEN sEmpty ELSE Base(wd.dir)

---------------------------------------------------------------------------
(* Errors: the chain fmt.Errorf builds, outermost message first.  A frame   *)
(* keeps the message, the name it mentions (field, variable, tool) and the   *)
(* value or path it echoes.                                                  *)

NoErr == <<>>
Errorf(msg, key, val) == <<[msg |-> msg, key |-> key, val |-> val]>>
\* fmt.Errorf("<msg>: %w", e)
Wrap(msg, e) == <<[msg |-> msg, key |-> "", val |-> sEmpty]>> \o e

---------------------------------------------------------------------------
(* Config and the field registry. *)

\* &Config{}
ZeroConfig ==
    [ArtifactName |-> sEmpty, HelmFlavour |-> sEmpty, DockerNamespace |-> sEmpty,
     DockerHost |-> sEmpty, KubernetesConfig |-> sEmpty,
     KubernetesContext |-> sEmpty, Env |-> <<>>, DryRun |-> FALSE,
     RunDockerBuild |-> FALSE, AutoApprove |-> FALSE]

\* reflect.Kind of each member of Config
StructKind ==
    [ArtifactName |-> "string", HelmFlavour |-> "string",
     DockerNamespace |-> "string", DockerHost |-> "string",
     KubernetesConfig |-> "string", KubernetesContext |-> "string",
     Env |-> "slice", DryRun |-> "bool", RunDockerBuild |-> "bool",
     AutoApprove |-> "bool"]

\* The registry without its defaults
FieldTable ==
    << [Name |-> "artifactName", ConfigPath |-> "artifactName",
        Flag |-> "artifact-name", Required |-> TRUE],
       [Name |-> "helmFlavour", ConfigPath |-> "helm.flavour",
        Flag |-> "helm-flavour", Required |-> TRUE],
       [Name |-> "dockerNamespace", ConfigPath |-> "docker.namespace",
        Flag |-> "docker-namespace", Required |-> FALSE],
       [Name |-> "dockerHost", ConfigPath |-> "docker.host",
        Flag |-> "docker-host", Required |-> FALSE],
       [Name |-> "kubernetesConfig", ConfigPath |-> "kubernetes.config",
        Flag |-> "kubernetes-config", Required |-> TRUE],
       [Name |-> "kubernetesContext", ConfigPath |-> "kubernetes.context",
        Flag |-> "kubernetes-context", Required |-> TRUE],
       [Name |-> "env", ConfigPath |-> "env", Flag |-> "env", Required |-> FALSE],
       [Name |-> "dryRun", ConfigPath |-> "dry-run", Flag |-> "dry-run",
        Required |-> FALSE],
       [Name |-> "runDockerBuild", ConfigPath |-> "docker.build",
        Flag |-> "docker-build", Required |-> FALSE],
       [Name |-> "autoApprove", ConfigPath |-> "auto-approve",
        Flag |-> "auto-approve", Required |-> FALSE] >>

FieldIdx == 1..Len(FieldTable)
FieldNames == {FieldTable[i].Name : i \in FieldIdx}
Flags == {FieldTable[i].Flag : i \in FieldIdx}
ConfigPaths == {FieldTable[i].ConfigPath : i \in FieldIdx}

\* The Default of each descriptor, evaluated when ConfigFields() is called
DefaultOf(name) ==
    CASE name = "artifactName" -> currentDirName
      [] name = "dockerHost" -> Getenv("REGISTRY_HOST")
      [] name = "kubernetesConfig" -> defaultKubeConfigPath
      [] name = "kubernetesContext" -> currentKubeContext
      [] name = "dryRun" -> sFalse
      [] name = "runDockerBuild" -> sTrue
      [] name = "autoApprove" -> sFalse
      [] OTHER -> sEmpty

ConfigFields ==
    [i \in FieldIdx |->
        [Name |-> FieldTable[i].Name, ConfigPath |-> FieldTable[i].ConfigPath,
         Flag |-> FieldTable[i].Flag, Required |-> FieldTable[i].Required,
         Default |-> DefaultOf(FieldTable[i].Name)]]

FieldNamed(name) == ConfigFields[CHOOSE i \in FieldIdx : ConfigFields[i].Name = name]

\* cases.Title(language.Und, cases.NoLower): the first letter in upper case
TitleName(name) ==
    CASE name = "artifactName" -> "ArtifactName"
      [] name = "helmFlavour" -> "HelmFlavour"
      [] name = "dockerNamespace" -> "DockerNamespace"
      [] name = "dockerHost" -> "DockerHost"
      [] name = "kubernetesConfig" -> "KubernetesConfig"
      [] name = "kubernetesContext" -> "KubernetesContext"
      [] name = "env" -> "Env"
      [] name = "dryRun" -> "DryRun"
      [] name = "runDockerBuild" -> "RunDockerBuild"
      [] name = "autoApprove" -> "AutoApprove"
      [] OTHER -> ""

\* init: every field becomes a string flag whose value starts as the field's
\* default; pflag marks a flag Changed when the command line sets it.
Untouched == [touched |-> FALSE, value |-> sEmpty]
Typed(s) == [touched |-> TRUE, value |-> s]
FlagSet(r) ==
    [f \in Flags |->
        LET fld == ConfigFields[CHOOSE i \in FieldIdx : ConfigFields[i].Flag = f]
        IN  [Changed |-> cli[r][f].touched,
             Value |-> IF cli[r][f].touched THEN cli[r][f].value ELSE fld.Default]]

\* A precedence that compares the flag's value with the default instead of
\* asking whether the flag was touched.
resolveByValue(cmd, field) ==
    IF cmd[field.Flag].Value # field.Default THEN cmd[field.Flag].Value
    ELSE IF IsSet(field.ConfigPath) THEN GetString(field.ConfigPath)
    ELSE field.Default

\* A precedence that lets the configuration file win over the command line.
resolveFileFirst(cmd, field) ==
    IF IsSet(field.ConfigPath) THEN GetString(field.ConfigPath)
    ELSE IF cmd[field.Flag].Changed THEN cmd[field.Flag].Value
    ELSE field.Default

resolveFieldValue(cmd, field) ==
    IF cmd[field.Flag].Changed THEN cmd[field.Flag].Value
    ELSE IF IsSet(field.ConfigPath) THEN GetString(field.ConfigPath)
    ELSE field.Default

parseBool(value) ==
    value = sTrue \/ value = sOne \/ ToLower(value) = sYes

RECURSIVE appendTrimmed(_, _)
appendTrimmed(items, parts) ==
    IF parts = <<>> THEN items
    ELSE LET trimmed == TrimSpace(Head(parts))
         IN  appendTrimmed(IF trimmed # sEmpty THEN Append(items, trimmed) ELSE items,
                           Tail(parts))

\* A list parser that forgets to drop the empty segments.
parseListKeepEmpty(value, sep) ==
    IF value = sEmpty THEN <<>>
    ELSE LET parts == Split(value, sep)
         IN  [i \in 1..Len(parts) |-> TrimSpace(parts[i])]

parseList(value, sep) ==
    IF value = sEmpty THEN <<>>
    ELSE appendTrimmed(<<>>, Split(value, sep))

setConfigField(c, field, value) ==
    LET f == TitleName(field.Name)
    IN  IF f \notin DOMAIN c
        THEN [cfg |-> c, err |-> Errorf("field not found in Config struct", field.Name, sEmpty)]
        ELSE CASE StructKind[f] = "string" ->
                    [cfg |-> [c EXCEPT ![f] = value], err |-> NoErr]
               [] StructKind[f] = "bool" ->
                    [cfg |-> [c EXCEPT ![f] = parseBool(value)], err |-> NoErr]
               [] StructKind[f] = "slice" ->
                    [cfg |-> [c EXCEPT ![f] = parseList(value, sComma)], err |-> NoErr]
               [] OTHER ->
                    [cfg |-> c, err |-> Errorf("unsupported field type", field.Name, sEmpty)]

RECURSIVE loadFields(_, _, _)
loadFields(cmd, c, fields) ==
    IF fields = <<>> THEN [cfg |-> c, err |-> NoErr]
    ELSE LET value == resolveFieldValue(cmd, Head(fields))
             set == setConfigField(c, Head(fields), value)
         IN  IF set.err # NoErr
             THEN [cfg |-> ZeroConfig,
                   err |-> Wrap("failed to set config field", set.err)]
             ELSE loadFields(cmd, set.cfg, Tail(fields))

LoadConfig(cmd) == loadFields(cmd, ZeroConfig, ConfigFields)

\* Derived values of a Config
ImageRepository(c) ==
    IF c.DockerHost = sEmpty \/ c.DockerNamespace = sEmpty \/ c.ArtifactName = sEmpty
    THEN [val |-> sEmpty,
          err |-> Errorf("dockerHost, dockerNamespace, and artifactName must all be set to generate image repository", "", sEmpty)]
    ELSE [val |-> c.DockerHost \o sSlash \o c.DockerNamespace \o sSlash \o c.ArtifactName,
          err |-> NoErr]

ImageTag(c) ==
    LET repo == ImageRepository(c)
    IN  IF repo.err # NoErr THEN [val |-> sEmpty, err |-> repo.err]
        ELSE [val |-> repo.val \o sColonLatest, err |-> NoErr]

\* A skip condition that looks at the Dockerfile only.
ShouldRunDockerBuildFileOnly(c) == Exists(sDockerfile)

ShouldRunDockerBuild(c) ==
    LET hasDockerfile == Exists(sDockerfile)
    IN  hasDockerfile /\ c.RunDockerBuild

ChartPath(c) == Join(<<sChartsRoot, c.HelmFlavour>>)

---------------------------------------------------------------------------
(* Validator.  Each check yields its error and the processes it spawned. *)

\* a process that was started, with the status it exited with
Proc(step, argv, input) == [step |-> step, argv |-> argv, stdin |-> input, exit |-> 0]
Exited(p, ok) == [p EXCEPT !.exit = IF ok THEN 0 ELSE 1]
Quiet(e) == [err |-> e, spawned |-> <<>>]

getFieldValue(c, name) ==
    CASE name = "artifactName" -> c.ArtifactName
      [] name = "helmFlavour" -> c.HelmFlavour
      [] name = "dockerNamespace" -> c.DockerNamespace
      [] name = "dockerHost" -> c.DockerHost
      [] name = "kubernetesConfig" -> c.KubernetesConfig
      [] name = "kubernetesContext" -> c.KubernetesContext
      [] name = "env" -> (IF Len(c.Env) > 0 THEN <<"s", "e", "t">> ELSE sEmpty)
      [] OTHER -> sEmpty

RECURSIVE requiredFields(_, _)
requiredFields(c, fields) ==
    IF fields = <<>> THEN NoErr
    ELSE IF Head(fields).Required /\ getFieldValue(c, Head(fields).Name) = sEmpty
    THEN Errorf("configuration error: required field is not set", Head(fields).Name, sEmpty)
    ELSE requiredFields(c, Tail(fields))

validateConfig(c) == Quiet(requiredFields(c, ConfigFields))

\* A flavour check that lets every value through.
validateHelmFlavourAny(c) == Quiet(NoErr)

validateHelmFlavour(c) ==
    LET flavour == c.HelmFlavour
    IN  IF flavour # sStateful /\ flavour # sStateless
        THEN Quiet(Errorf("invalid helm flavour: expected 'stateful' or 'stateless'", "", flavour))
        ELSE Quiet(NoErr)

RECURSIVE firstUnset(_)
firstUnset(required) ==
    IF required = <<>> THEN NoErr
    ELSE IF Getenv(Head(required)) = sEmpty
    THEN Errorf("required environment variable is not set", Head(required), sEmpty)
    ELSE firstUnset(Tail(required))

\* A check that a dry run leaves out.
validateEnvVarsUnlessDryRun(c) ==
    IF c.DryRun THEN Quiet(NoErr)
    ELSE Quiet(firstUnset(<<"REGISTRY_USERNAME", "REGISTRY_PASSWORD">>))

\* A check that passes as soon as one of the two variables is set.
validateEnvVarsEither(c) ==
    IF Getenv("REGISTRY_USERNAME") = sEmpty /\ Getenv("REGISTRY_PASSWORD") = sEmpty
    THEN Quiet(Errorf("required environment variable is not set", "REGISTRY_USERNAME", sEmpty))
    ELSE Quiet(NoErr)

validateEnvVars(c) ==
    Quiet(firstUnset(<<"REGISTRY_USERNAME", "REGISTRY_PASSWORD">>))

EnvValuesPath(env) == Join(<<sDotDockwright, sHelmDir, env \o sDotValuesYaml>>)

RECURSIVE firstMissingValues(_)
firstMissingValues(envs) ==
    IF envs = <<>> THEN NoErr
    ELSE IF ~Exists(EnvValuesPath(Head(envs)))
    THEN Errorf("environment values file not found at path", "", EnvValuesPath(Head(envs)))
    ELSE firstMissingValues(Tail(envs))

validateEnvValueFiles(c) == Quiet(firstMissingValues(c.Env))

validateKubeContext(c) ==
    IF c.KubernetesContext = sEmpty THEN Quiet(NoErr)
    ELSE IF ~Readable(c.KubernetesConfig)
    THEN Quiet(Wrap("failed to read kubeconfig file",
                    Errorf("open", "", c.KubernetesConfig)))
    ELSE IF fs[c.KubernetesConfig].kind # "yaml"
    THEN Quiet(Wrap("failed to parse kubeconfig file",
                    Errorf("yaml", "", c.KubernetesConfig)))
    ELSE IF \E i \in 1..Len(fs[c.KubernetesConfig].contexts) :
                fs[c.KubernetesConfig].contexts[i] = c.KubernetesContext
    THEN Quiet(NoErr)
    ELSE Quiet(Errorf("kubernetes context not found in kubeconfig", "", c.KubernetesContext))

validateTools(c) ==
    IF ~tools.docker
    THEN Quiet(Errorf("required tool is not installed or not found in PATH", "docker", sEmpty))
    ELSE IF ~tools.helm
    THEN Quiet(Errorf("required tool is not installed or not found in PATH", "helm", sEmpty))
    ELSE [err |-> IF tools.daemon THEN NoErr
                  ELSE Errorf("docker daemon is not running", "", sEmpty),
          spawned |-> <<Exited(Proc("validate", <<sDocker, sInfo>>, sEmpty), tools.daemon)>>]

\* The checks table of ValidateAll
CheckNames ==
    <<"Configuration", "Helm flavour", "Environment variables",
      "Environment values files", "Kubernetes context", "System tools">>

\* A table with the first two checks exchanged.
runCheckSwapped(i, c) ==
    CASE i = 1 -> validateHelmFlavour(c)
      [] i = 2 -> validateConfig(c)
      [] i = 3 -> validateEnvVars(c)
      [] i = 4 -> validateEnvValueFiles(c)
      [] i = 5 -> validateKubeContext(c)
      [] OTHER -> validateTools(c)

runCheck(i, c) ==
    CASE i = 1 -> validateConfig(c)
      [] i = 2 -> validateHelmFlavour(c)
      [] i = 3 -> validateEnvVars(c)
      [] i = 4 -> validateEnvValueFiles(c)
      [] i = 5 -> validateKubeContext(c)
      [] OTHER -> validateTools(c)

---------------------------------------------------------------------------
(* DockerRunner and HelmRunner: the commands they construct. *)

buildCommand(tag) == <<sDocker, sBuild, sDashT, tag, sDot>>
\* A login command that hands the password over as an argument.
loginCommandWithPassword(c, username) ==
    <<sDocker, sLogin, c.DockerHost, sDashU, username, <<"-", "p">>,
      Getenv("REGISTRY_PASSWORD")>>

loginCommand(c, username) ==
    <<sDocker, sLogin, c.DockerHost, sDashU, username, sPasswordStdin>>
\* what the dry-run log line of login shows
loginPlanned(c, username) == <<sDocker, sLogin, c.DockerHost, sDashU, username>>
pushCommand(tag) == <<sDocker, sPush, tag>>

BaseValuesPath == Join(<<sDotDockwright, sHelmDir, sValuesYaml>>)

\* A collection that passes over the environments whose file is missing.
RECURSIVE collectEnvFilesSkipMissing(_, _)
collectEnvFilesSkipMissing(files, envs) ==
    IF envs = <<>> THEN [files |-> files, err |-> NoErr]
    ELSE IF ~Exists(EnvValuesPath(Head(envs)))
    THEN collectEnvFilesSkipMissing(files, Tail(envs))
    ELSE collectEnvFilesSkipMissing(Append(files, EnvValuesPath(Head(envs))), Tail(envs))

RECURSIVE collectEnvFiles(_, _)
collectEnvFiles(files, envs) ==
    IF envs = <<>> THEN [files |-> files, err |-> NoErr]
    ELSE LET envValues == EnvValuesPath(Head(envs))
         IN  IF ~Exists(envValues)
             THEN [files |-> <<>>,
                   err |-> Errorf("environment values file not found at path", "", envValues)]
             ELSE collectEnvFiles(Append(files, envValues), Tail(envs))

collectValuesFiles(c) ==
    collectEnvFiles(IF Exists(BaseValuesPath) THEN <<BaseValuesPath>> ELSE <<>>, c.Env)

RECURSIVE valuesFlags(_)
valuesFlags(files) ==
    IF files = <<>> THEN <<>>
    ELSE <<sValuesFlag, Head(files)>> \o valuesFlags(Tail(files))

buildArgs(c, chartPath, files) ==
    <<sUpgrade, sInstall, c.ArtifactName, chartPath, sKubeconfigFlag, c.KubernetesConfig>>
    \o (IF c.KubernetesContext # sEmpty
        THEN <<sKubeContextFlag, c.KubernetesContext>> ELSE <<>>)
    \o valuesFlags(files)

\* Image overrides that follow the docker-build option alone.
buildImageArgsByFlag(c) ==
    IF c.RunDockerBuild /\ ImageRepository(c).err = NoErr
    THEN [args |-> <<sSetFlag, sImageRepositoryEq \o ImageRepository(c).val,
                     sSetFlag, sImageTagLatest>>,
          err |-> NoErr]
    ELSE [args |-> <<>>, err |-> NoErr]

buildImageArgs(c) ==
    IF ShouldRunDockerBuild(c)
    THEN LET imageRepo == ImageRepository(c)
         IN  IF imageRepo.err # NoErr THEN [args |-> <<>>, err |-> imageRepo.err]
             ELSE [args |-> <<sSetFlag, sImageRepositoryEq \o imageRepo.val,
                              sSetFlag, sImageTagLatest>>,
                   err |-> NoErr]
    ELSE [args |-> <<>>, err |-> NoErr]

\* A Run that puts the image overrides in front of the values files.
helmPrepareOverridesFirst(c) ==
    LET vf == collectValuesFiles(c)
        imageArgs == buildImageArgs(c)
    IN  IF ~Exists(ChartPath(c)) \/ vf.err # NoErr \/ imageArgs.err # NoErr
        THEN [err |-> Errorf("helm chart not found at path", "", ChartPath(c)),
              files |-> <<>>, args |-> <<>>]
        ELSE [err |-> NoErr, files |-> vf.files,
              args |-> buildArgs(c, ChartPath(c), <<>>) \o imageArgs.args
                       \o valuesFlags(vf.files)]

\* HelmRunner.Run up to the call of execute: the error, or the args.
helmPrepare(c) ==
    LET chartPath == ChartPath(c)
        none == [files |-> <<>>, args |-> <<>>]
    IN  IF ~Exists(chartPath)
        THEN [err |-> Errorf("helm chart not found at path", "", chartPath)] @@ none
        ELSE LET vf == collectValuesFiles(c)
             IN  IF vf.err # NoErr
                 THEN [err |-> Wrap("failed to collect values files", vf.err)] @@ none
                 ELSE LET args == buildArgs(c, chartPath, vf.files)
                          imageArgs == buildImageArgs(c)
                      IN  IF imageArgs.err # NoErr
                          THEN [err |-> imageArgs.err, files |-> vf.files, args |-> <<>>]
                          ELSE [err |-> NoErr, files |-> vf.files,
                                args |-> args \o imageArgs.args]

\* An execute that leaves the simulate marker out of the planned command.
executeArgsNoMarker(c, args) == args

\* HelmRunner.execute: the args it logs (dry-run) or runs
executeArgs(c, args) == IF c.DryRun THEN Append(args, sDryRunFlag) ELSE args

---------------------------------------------------------------------------
(* The steps that run or simulate an external command.  `ok` is the outcome *)
(* of the external process, which the program does not control.             *)

Plan(step, argv) == [step |-> step, argv |-> argv]
StepResult(e, spawned, plan) == [err |-> e, spawned |-> spawned, planned |-> plan]
ExitError == Errorf("exit status 1", "", sEmpty)

\* A build that runs docker even in dry-run mode.
buildAlways(c, tag, ok) ==
    StepResult(IF ok THEN NoErr ELSE ExitError,
               <<Exited(Proc("build", buildCommand(tag), sEmpty), ok)>>, <<>>)

build(c, tag, ok) ==
    IF c.DryRun
    THEN StepResult(NoErr, <<>>, <<Plan("build", buildCommand(tag))>>)
    ELSE StepResult(IF ok THEN NoErr ELSE ExitError,
                    <<Exited(Proc("build", buildCommand(tag), sEmpty), ok)>>, <<>>)

\* A login that looks at the credentials only when it is about to run docker.
loginDryRunFirst(c, outcome) ==
    LET username == Getenv("REGISTRY_USERNAME")
        password == Getenv("REGISTRY_PASSWORD")
    IN  IF c.DryRun
        THEN StepResult(NoErr, <<>>, <<Plan("login", loginPlanned(c, username))>>)
        ELSE IF username = sEmpty \/ password = sEmpty
        THEN StepResult(Errorf("REGISTRY_USERNAME and REGISTRY_PASSWORD environment variables must be set for Docker login", "", sEmpty),
                        <<>>, <<>>)
        ELSE IF outcome = "start"
        THEN StepResult(Wrap("failed to start docker login", ExitError), <<>>, <<>>)
        ELSE StepResult(IF outcome = "ok" THEN NoErr
                        ELSE Wrap("docker login failed", ExitError),
                        <<Exited(Proc("login", loginCommand(c, username), password \o sNewline),
                                 outcome = "ok")>>,
                        <<>>)

\* outcome: "ok", "start" (the process could not be started) or "wait" (it
\* exited non-zero)
login(c, outcome) ==
    LET username == Getenv("REGISTRY_USERNAME")
        password == Getenv("REGISTRY_PASSWORD")
    IN  IF username = sEmpty \/ password = sEmpty
        THEN StepResult(Errorf("REGISTRY_USERNAME and REGISTRY_PASSWORD environment variables must be set for Docker login", "", sEmpty),
                        <<>>, <<>>)
        ELSE IF c.DryRun
        THEN StepResult(NoErr, <<>>, <<Plan("login", loginPlanned(c, username))>>)
        ELSE IF outcome = "start"
        THEN StepResult(Wrap("failed to start docker login", ExitError), <<>>, <<>>)
        ELSE StepResult(IF outcome = "ok" THEN NoErr
                        ELSE Wrap("docker login failed", ExitError),
                        <<Exited(Proc("login", loginCommand(c, username), password \o sNewline),
                                 outcome = "ok")>>,
                        <<>>)

push(c, tag, ok) ==
    IF c.DryRun
    THEN StepResult(NoErr, <<>>, <<Plan("push", pushCommand(tag))>>)
    ELSE StepResult(IF ok THEN NoErr ELSE ExitError,
                    <<Exited(Proc("push", pushCommand(tag), sEmpty), ok)>>, <<>>)

execute(c, args, ok) ==
    IF c.DryRun
    THEN StepResult(NoErr, <<>>, <<Plan("deploy", <<sHelm>> \o executeArgs(c, args))>>)
    ELSE StepResult(IF ok THEN NoErr ELSE Wrap("helm deployment failed", ExitError),
                    <<Exited(Proc("deploy", <<sHelm>> \o executeArgs(c, args), sEmpty), ok)>>,
                    <<>>)

---------------------------------------------------------------------------
(* runDeploy, one action per step. *)

Terminal == {"done", "failed"}

\* the stage `name` is the last stage of `st` with `status`, appended when new
Mark(st, name, status) ==
    IF st # <<>> /\ st[Len(st)].name = name
    THEN [st EXCEPT ![Len(st)].status = status]
    ELSE Append(st, [name |-> name, status |-> status])

\* An error that is recorded but not returned: the run goes on to report
\* completion.
ReturnSwallowed(r, e) ==
    /\ pc' = [pc EXCEPT ![r] = "complete"]
    /\ err' = [err EXCEPT ![r] = e]
    /\ UNCHANGED exitCode

\* return e from runDeploy: Execute exits with status 1
Return(r, e) ==
    /\ pc' = [pc EXCEPT ![r] = "failed"]
    /\ err' = [err EXCEPT ![r] = e]
    /\ exitCode' = [exitCode EXCEPT ![r] = 1]

Goto(r, next) ==
    /\ pc' = [pc EXCEPT ![r] = next]
    /\ UNCHANGED <<err, exitCode>>

inputs == <<cli, file, osenv, wd, fs, tools>>

\* Step 1: LoadConfig.  The invocations of one behaviour run one after the
\* other.
Configure(r) ==
    /\ pc[r] = "configure"
    /\ \A q \in Runs : q < r => pc[q] \in Terminal \cup {"idle"}
    /\ LET lc == LoadConfig(FlagSet(r))
       IN  /\ cfg' = [cfg EXCEPT ![r] = lc.cfg]
           /\ resolved' = [resolved EXCEPT ![r] =
                  [n \in FieldNames |-> resolveFieldValue(FlagSet(r), FieldNamed(n))]]
           /\ IF lc.err # NoErr
              THEN /\ Return(r, Wrap("failed to load configuration", lc.err))
                   /\ stages' = [stages EXCEPT ![r] = Mark(@, "configure", "failed")]
              ELSE /\ Goto(r, "confirm")
                   /\ stages' = [stages EXCEPT ![r] = Mark(@, "configure", "ok")]
    /\ UNCHANGED <<inputs, stdin, results, imageTag, valuesFiles, helmArgs, procs, planned>>

\* A read that refuses a line with nothing on it.
ReadStringWantsText(in) ==
    LET nl == {i \in 1..Len(in) : in[i] = "\n"}
    IN  IF nl = {} \/ SetMin(nl) = 1
        THEN [line |-> in, rest |-> sEmpty, err |-> Errorf("EOF", "", sEmpty)]
        ELSE [line |-> SubSeq(in, 1, SetMin(nl)),
              rest |-> SubSeq(in, SetMin(nl) + 1, Len(in)), err |-> NoErr]

\* bufio.Reader.ReadString('\n') on what is left of standard input: the line
\* up to and including the first newline, or io.EOF when the input ends first.
ReadString(in) ==
    LET nl == {i \in 1..Len(in) : in[i] = "\n"}
    IN  IF nl = {}
        THEN [line |-> in, rest |-> sEmpty, err |-> Errorf("EOF", "", sEmpty)]
        ELSE [line |-> SubSeq(in, 1, SetMin(nl)),
              rest |-> SubSeq(in, SetMin(nl) + 1, Len(in)), err |-> NoErr]

\* A gate that notes the user's consent in the configuration.
ConfirmApproves(r) ==
    /\ pc[r] = "confirm"
    /\ IF ~cfg[r].AutoApprove /\ ~cfg[r].DryRun
       THEN LET rd == ReadString(stdin[r])
            IN  /\ stdin' = [stdin EXCEPT ![r] = rd.rest]
                /\ cfg' = [cfg EXCEPT ![r].AutoApprove = rd.err = NoErr]
                /\ IF rd.err # NoErr
                   THEN /\ Return(r, Wrap("failed to read user input", rd.err))
                        /\ stages' = [stages EXCEPT ![r] = Mark(@, "confirm", "failed")]
                   ELSE /\ Goto(r, "validate")
                        /\ stages' = [stages EXCEPT ![r] = Mark(@, "confirm", "ok")]
       ELSE /\ Goto(r, "validate")
            /\ UNCHANGED <<stdin, stages, cfg>>
    /\ UNCHANGED <<inputs, resolved, results, imageTag, valuesFiles, helmArgs,
                   procs, planned>>

\* The confirmation gate
Confirm(r) ==
    /\ pc[r] = "confirm"
    /\ IF ~cfg[r].AutoApprove /\ ~cfg[r].DryRun
       THEN LET rd == ReadString(stdin[r])
            IN  /\ stdin' = [stdin EXCEPT ![r] = rd.rest]
                /\ IF rd.err # NoErr
                   THEN /\ Return(r, Wrap("failed to read user input", rd.err))
                        /\ stages' = [stages EXCEPT ![r] = Mark(@, "confirm", "failed")]
                   ELSE /\ Goto(r, "validate")
                        /\ stages' = [stages EXCEPT ![r] = Mark(@, "confirm", "ok")]
       ELSE /\ Goto(r, "validate")
            /\ UNCHANGED <<stdin, stages>>
    /\ UNCHANGED <<inputs, cfg, resolved, results, imageTag, valuesFiles, helmArgs,
                   procs, planned>>

\* Step 2: one iteration of the loop of ValidateAll; runDeploy returns the
\* error of the first result that carries one.
Validate(r) ==
    /\ pc[r] = "validate"
    /\ LET i == Len(results[r]) + 1
           check == runCheck(i, cfg[r])
       IN  /\ results' = [results EXCEPT ![r] =
                  Append(@, [Name |-> CheckNames[i], Err |-> check.err])]
           /\ procs' = [procs EXCEPT ![r] = @ \o check.spawned]
           /\ IF check.err # NoErr
              THEN /\ Return(r, check.err)
                   /\ stages' = [stages EXCEPT ![r] = Mark(@, "validate", "failed")]
              ELSE IF i = Len(CheckNames)
              THEN /\ Goto(r, "image")
                   /\ stages' = [stages EXCEPT ![r] = Mark(@, "validate", "ok")]
              ELSE /\ Goto(r, "validate")
                   /\ stages' = [stages EXCEPT ![r] = Mark(@, "validate", "running")]
    /\ UNCHANGED <<inputs, stdin, cfg, resolved, imageTag, valuesFiles, helmArgs, planned>>

\* Step 3: DockerRunner.Run, entry: the skip condition and the image tag
ImageEntry(r) ==
    /\ pc[r] = "image"
    /\ IF ~ShouldRunDockerBuild(cfg[r])
       THEN /\ Goto(r, "deploy")
            /\ stages' = [stages EXCEPT ![r] = Mark(@, "image", "ok")]
            /\ UNCHANGED imageTag
       ELSE LET tag == ImageTag(cfg[r])
            IN  IF tag.err # NoErr
                THEN /\ Return(r, Wrap("docker workflow failed", tag.err))
                     /\ stages' = [stages EXCEPT ![r] = Mark(@, "image", "failed")]
                     /\ UNCHANGED imageTag
                ELSE /\ Goto(r, "build")
                     /\ stages' = [stages EXCEPT ![r] = Mark(@, "image", "running")]
                     /\ imageTag' = [imageTag EXCEPT ![r] = tag.val]
    /\ UNCHANGED <<inputs, stdin, cfg, resolved, results, valuesFiles, helmArgs,
                   procs, planned>>

\* A docker step whose failure does not stop the workflow.
DockerStepKeepGoing(r, res, wrap, next, last) ==
    /\ procs' = [procs EXCEPT ![r] = @ \o res.spawned]
    /\ planned' = [planned EXCEPT ![r] = @ \o res.planned]
    /\ Goto(r, next)
    /\ stages' = [stages EXCEPT ![r] = Mark(@, "image", IF last THEN "ok" ELSE "running")]
    /\ UNCHANGED <<inputs, stdin, cfg, resolved, results, imageTag, valuesFiles, helmArgs>>

\* the rest of a docker step: record what it did, go on or return its error
DockerStep(r, res, wrap, next, last) ==
    /\ procs' = [procs EXCEPT ![r] = @ \o res.spawned]
    /\ planned' = [planned EXCEPT ![r] = @ \o res.planned]
    /\ IF res.err # NoErr
       THEN /\ Return(r, Wrap("docker workflow failed", Wrap(wrap, res.err)))
            /\ stages' = [stages EXCEPT ![r] = Mark(@, "image", "failed")]
       ELSE /\ Goto(r, next)
            /\ stages' = [stages EXCEPT ![r] =
                            Mark(@, "image", IF last THEN "ok" ELSE "running")]
    /\ UNCHANGED <<inputs, stdin, cfg, resolved, results, imageTag, valuesFiles, helmArgs>>

Build(r) ==
    /\ pc[r] = "build"
    /\ \E ok \in BOOLEAN :
          DockerStep(r, build(cfg[r], imageTag[r], ok), "docker build failed", "login", FALSE)

Login(r) ==
    /\ pc[r] = "login"
    /\ \E outcome \in {"ok", "start", "wait"} :
          DockerStep(r, login(cfg[r], outcome), "docker login failed", "push", FALSE)

Push(r) ==
    /\ pc[r] = "push"
    /\ \E ok \in BOOLEAN :
          DockerStep(r, push(cfg[r], imageTag[r], ok), "docker push failed", "deploy", TRUE)

\* Step 4: HelmRunner.Run
Deploy(r) ==
    /\ pc[r] = "deploy"
    /\ LET prep == helmPrepare(cfg[r])
       IN  /\ valuesFiles' = [valuesFiles EXCEPT ![r] = prep.files]
           /\ IF prep.err # NoErr
              THEN /\ Return(r, Wrap("helm workflow failed", prep.err))
                   /\ stages' = [stages EXCEPT ![r] = Mark(@, "deploy", "failed")]
                   /\ UNCHANGED <<helmArgs, procs, planned>>
              ELSE \E ok \in BOOLEAN :
                     LET res == execute(cfg[r], prep.args, ok)
                     IN  /\ helmArgs' = [helmArgs EXCEPT ![r] =
                                            executeArgs(cfg[r], prep.args)]
                         /\ procs' = [procs EXCEPT ![r] = @ \o res.spawned]
                         /\ planned' = [planned EXCEPT ![r] = @ \o res.planned]
                         /\ IF res.err # NoErr
                            THEN /\ Return(r, Wrap("helm workflow failed", res.err))
                                 /\ stages' = [stages EXCEPT ![r] =
                                                  Mark(@, "deploy", "failed")]
                            ELSE /\ Goto(r, "complete")
                                 /\ stages' = [stages EXCEPT ![r] = Mark(@, "deploy", "ok")]
    /\ UNCHANGED <<inputs, stdin, cfg, resolved, results, imageTag>>

\* DEPLOYMENT COMPLETE: runDeploy returns nil and the process exits 0
Complete(r) ==
    /\ pc[r] = "complete"
    /\ pc' = [pc EXCEPT ![r] = "done"]
    /\ exitCode' = [exitCode EXCEPT ![r] = 0]
    /\ stages' = [stages EXCEPT ![r] = Mark(@, "complete", "ok")]
    /\ UNCHANGED <<inputs, stdin, cfg, resolved, results, imageTag, valuesFiles,
                   helmArgs, procs, planned, err>>

Next ==
    \E r \in Runs :
        \/ Configure(r)
        \/ Confirm(r)
        \/ Validate(r)
        \/ ImageEntry(r)
        \/ Build(r)
        \/ Login(r)
        \/ Push(r)
        \/ Deploy(r)
        \/ Complete(r)

---------------------------------------------------------------------------
(* The inputs of a run.  The documented setup: a service directory "svc"    *)
(* with a Dockerfile, a config file naming flavour and namespace, the three *)
(* REGISTRY_ variables exported, a kubeconfig whose current context is      *)
(* "dev", values files for "stg" and "prd", both charts installed, docker   *)
(* and helm installed and the daemon up, and one Enter on standard input.   *)

vSvc == <<"s", "v", "c">>
vApp == <<"a", "p", "p">>
vOrg == <<"o", "r", "g">>
vReg == <<"r", ".", "i", "o">>
vHome == <<"/", "h">>
vWd == <<"/", "w", "/", "s", "v", "c">>
vDev == <<"d", "e", "v">>
vOps == <<"o", "p", "s">>
vStg == <<"s", "t", "g">>
vPrd == <<"p", "r", "d">>
vUser == <<"b", "o", "b">>
vPass == <<"p", "w">>
vOther == <<"x">>
vKubePath == Join(<<vHome, sDotKube, sConfig>>)
vElsewhere == <<"/", "k">>

Absent == [kind |-> "absent", contexts |-> <<>>, current |-> sEmpty]
Dir == [kind |-> "dir", contexts |-> <<>>, current |-> sEmpty]
Text == [kind |-> "text", contexts |-> <<>>, current |-> sEmpty]
Yaml == [kind |-> "yaml", contexts |-> <<>>, current |-> sEmpty]
Kube(contexts, current) == [kind |-> "yaml", contexts |-> contexts, current |-> current]

FileKeys ==
    <<"Dockerfile", "baseValues", "stgValues", "prdValues", "chartStateless",
      "chartStateful", "kubeconfig">>
PathOf(key) ==
    CASE key = "Dockerfile" -> sDockerfile
      [] key = "baseValues" -> BaseValuesPath
      [] key = "stgValues" -> EnvValuesPath(vStg)
      [] key = "prdValues" -> EnvValuesPath(vPrd)
      [] key = "chartStateless" -> Join(<<sChartsRoot, sStateless>>)
      [] key = "chartStateful" -> Join(<<sChartsRoot, sStateful>>)
      [] OTHER -> vKubePath

EnvVars == <<"REGISTRY_HOST", "REGISTRY_USERNAME", "REGISTRY_PASSWORD", "HOME">>
ToolNames == <<"docker", "helm", "daemon">>

\* every place where the inputs can differ, in a fixed order
SlotSeq ==
    [i \in FieldIdx |-> <<"cli", FieldTable[i].Flag>>]
    \o [i \in FieldIdx |-> <<"file", FieldTable[i].ConfigPath>>]
    \o [i \in 1..Len(EnvVars) |-> <<"env", EnvVars[i]>>]
    \o [i \in 1..Len(FileKeys) |-> <<"fs", FileKeys[i]>>]
    \o [i \in 1..Len(ToolNames) |-> <<"tool", ToolNames[i]>>]
    \o << <<"wd", "wd">>, <<"stdin", "stdin">> >>
Slots == {SlotSeq[i] : i \in 1..Len(SlotSeq)}

Documented ==
    [s \in Slots |->
        CASE s[1] = "cli" -> Untouched
          [] s[1] = "file" ->
                (CASE s[2] = "helm.flavour" -> YStr(sStateless)
                   [] s[2] = "docker.namespace" -> YStr(vOrg)
                   [] OTHER -> NotSet)
          [] s[1] = "env" ->
                (CASE s[2] = "REGISTRY_HOST" -> vReg
                   [] s[2] = "REGISTRY_USERNAME" -> vUser
                   [] s[2] = "REGISTRY_PASSWORD" -> vPass
                   [] OTHER -> vHome)
          [] s[1] = "fs" ->
                (CASE s[2] \in {"chartStateless", "chartStateful"} -> Dir
                   [] s[2] = "kubeconfig" -> Kube(<<vDev, vOps>>, vDev)
                   [] s[2] = "Dockerfile" -> Text
                   [] OTHER -> Yaml)
          [] s[1] = "tool" -> TRUE
          [] s[1] = "wd" -> [ok |-> TRUE, dir |-> vWd]
          [] OTHER -> sNewline]

\* All assignments of the slots from index i on that leave the documented
\* value in all but at most k of them and pick the others from alt.
RECURSIVE Vary(_, _, _, _)
Vary(alt, i, k, f) ==
    IF i > Len(SlotSeq) THEN {f}
    ELSE Vary(alt, i + 1, k, f)
         \cup (IF k = 0 THEN {}
               ELSE UNION {Vary(alt, i + 1, k - 1, [f EXCEPT ![SlotSeq[i]] = v]) :
                             v \in alt[SlotSeq[i]]})

NoAlt == [s \in Slots |-> {}]

\* What a process finds when it starts: its command line, the configuration
\* file, the environment, the working directory, the files, the tools and its
\* standard input
Given(c, cmds) ==
    /\ cli = cmds
    /\ file = [p \in ConfigPaths |-> c[<<"file", p>>]]
    /\ osenv = [v \in {EnvVars[i] : i \in 1..Len(EnvVars)} |-> c[<<"env", v>>]]
    /\ wd = c[<<"wd", "wd">>]
    /\ fs = LET present == {i \in 1..Len(FileKeys) : c[<<"fs", FileKeys[i]>>] # Absent}
            IN  [p \in {PathOf(FileKeys[i]) : i \in present} |->
                    c[<<"fs", FileKeys[CHOOSE i \in present : PathOf(FileKeys[i]) = p]>>]]
    /\ tools = [t \in {ToolNames[i] : i \in 1..Len(ToolNames)} |-> c[<<"tool", t>>]]
    /\ stdin = [r \in Runs |-> c[<<"stdin", "stdin">>]]

\* The state before main runs, for the inputs c and the command lines cmds
Start(c, cmds, first) ==
    /\ Given(c, cmds)
    /\ pc = [r \in Runs |-> IF r \in first THEN "configure" ELSE "idle"]
    /\ cfg = [r \in Runs |-> ZeroConfig]
    /\ resolved = [r \in Runs |-> [n \in FieldNames |-> sEmpty]]
    /\ results = [r \in Runs |-> <<>>]
    /\ imageTag = [r \in Runs |-> sEmpty]
    /\ valuesFiles = [r \in Runs |-> <<>>]
    /\ helmArgs = [r \in Runs |-> <<>>]
    /\ procs = [r \in Runs |-> <<>>]
    /\ planned = [r \in Runs |-> <<>>]
    /\ stages = [r \in Runs |-> <<>>]
    /\ err = [r \in Runs |-> NoErr]
    /\ exitCode = [r \in Runs |-> -1]

CommandLine(c) == [f \in Flags |-> c[<<"cli", f>>]]

\* Spec: one invocation; the environment, the files, the tools and the main
\* options vary.
AltSpec ==
    (<<"cli", "artifact-name">> :> {Typed(sEmpty)})
    @@ (<<"cli", "helm-flavour">> :> {Typed(sEmpty), Typed(sStateful), Typed(vOther)})
    @@ (<<"cli", "docker-namespace">> :> {Typed(sEmpty)})
    @@ (<<"cli", "docker-host">> :> {Typed(sEmpty)})
    @@ (<<"cli", "kubernetes-config">> :> {Typed(vElsewhere)})
    @@ (<<"cli", "kubernetes-context">> :> {Typed(sEmpty), Typed(vOps), Typed(vOther)})
    @@ (<<"cli", "env">> :> {Typed(vStg), Typed(vStg \o sComma \o vPrd),
                             Typed(vPrd \o <<",", " ">> \o vStg)})
    @@ (<<"cli", "dry-run">> :> {Typed(sTrue)})
    @@ (<<"cli", "docker-build">> :> {Typed(sFalse)})
    @@ (<<"cli", "auto-approve">> :> {Typed(sTrue)})
    @@ (<<"file", "helm.flavour">> :> {NotSet})
    @@ (<<"file", "env">> :> {YList(<<vStg, vPrd>>)})
    @@ (<<"env", "REGISTRY_HOST">> :> {sEmpty})
    @@ (<<"env", "REGISTRY_USERNAME">> :> {sEmpty})
    @@ (<<"env", "REGISTRY_PASSWORD">> :> {sEmpty})
    @@ (<<"env", "HOME">> :> {sEmpty})
    @@ (<<"fs", "Dockerfile">> :> {Absent})
    @@ (<<"fs", "baseValues">> :> {Absent})
    @@ (<<"fs", "stgValues">> :> {Absent})
    @@ (<<"fs", "prdValues">> :> {Absent})
    @@ (<<"fs", "chartStateless">> :> {Absent})
    @@ (<<"fs", "kubeconfig">> :> {Absent, Text, Kube(<<vOps>>, vOps)})
    @@ (<<"tool", "docker">> :> {FALSE})
    @@ (<<"tool", "helm">> :> {FALSE})
    @@ (<<"tool", "daemon">> :> {FALSE})
    @@ (<<"wd", "wd">> :> {[ok |-> FALSE, dir |-> sEmpty]})
    @@ (<<"stdin", "stdin">> :> {sEmpty, <<"y">>, <<"y", "\n">>, <<"n", "\n">>,
                                 <<"\n", "y", "\n">>})
    @@ NoAlt

Init ==
    \E c \in Vary(AltSpec, 1, MaxVaried, Documented) :
        Start(c, [r \in Runs |-> CommandLine(c)], {1})

Spec == Init /\ [][Next]_vars

\* SpecPair: the same inputs as Spec, given to two invocations that differ
\* in nothing but --dry-run: invocation 1 is real, invocation 2 simulates.
InitPair ==
    \E c \in Vary(AltSpec, 1, MaxVaried, Documented) :
        Start(c,
              [r \in Runs |->
                  [CommandLine(c) EXCEPT
                      !["dry-run"] = Typed(IF r = 1 THEN sFalse ELSE sTrue)]],
              Runs)

SpecPair == InitPair /\ [][Next]_vars

\* SpecResolve: one invocation in the documented environment; each flag is
\* untouched, typed with its default or typed with another value, and each
\* key of the configuration file is absent or holds a scalar or a sequence.
AltResolve ==
    (<<"cli", "artifact-name">> :> {Typed(vSvc), Typed(vApp)})
    @@ (<<"cli", "helm-flavour">> :> {Typed(sEmpty), Typed(sStateful)})
    @@ (<<"cli", "docker-namespace">> :> {Typed(sEmpty), Typed(vOther)})
    @@ (<<"cli", "docker-host">> :> {Typed(vReg), Typed(vOther)})
    @@ (<<"cli", "kubernetes-config">> :> {Typed(vKubePath), Typed(vElsewhere)})
    @@ (<<"cli", "kubernetes-context">> :> {Typed(vDev), Typed(vOps)})
    @@ (<<"cli", "env">> :> {Typed(sEmpty), Typed(vStg)})
    @@ (<<"cli", "dry-run">> :> {Typed(sFalse), Typed(sTrue)})
    @@ (<<"cli", "docker-build">> :> {Typed(sTrue), Typed(sFalse)})
    @@ (<<"cli", "auto-approve">> :> {Typed(sFalse), Typed(sTrue)})
    @@ (<<"file", "artifactName">> :> {YStr(vApp), YStr(vOther)})
    @@ (<<"file", "helm.flavour">> :> {NotSet, YStr(sStateful)})
    @@ (<<"file", "docker.namespace">> :> {NotSet, YStr(vOther)})
    @@ (<<"file", "docker.host">> :> {YStr(vOther)})
    @@ (<<"file", "kubernetes.config">> :> {YStr(vElsewhere)})
    @@ (<<"file", "kubernetes.context">> :> {YStr(vOps)})
    @@ (<<"file", "env">> :> {YStr(vPrd), YStr(vStg \o sComma \o vPrd),
                              YList(<<vStg, vPrd>>)})
    @@ (<<"file", "dry-run">> :> {YBool(TRUE), YBool(FALSE), YStr(sTrue), YInt(1)})
    @@ (<<"file", "docker.build">> :> {YBool(FALSE), YBool(TRUE), YInt(0)})
    @@ (<<"file", "auto-approve">> :> {YBool(TRUE), YStr(sYes)})
    @@ NoAlt

InitResolve ==
    \E c \in Vary(AltResolve, 1, MaxVaried, Documented) :
        Start(c, [r \in Runs |-> CommandLine(c)], {1})

SpecResolve == InitResolve /\ [][Next]_vars

\* SpecCoerce: one invocation in the documented environment in which one
\* boolean flag or the list flag is typed with an arbitrary short string.
Strings(alphabet, n) == UNION {[1..k -> alphabet] : k \in 0..n}

ToUpperChar(c) ==
    IF \E i \in 1..Len(LowerCase) : LowerCase[i] = c
    THEN UpperCase[CHOOSE i \in 1..Len(LowerCase) : LowerCase[i] = c]
    ELSE c

\* every way of writing the lower-case word w in mixed case
Casings(w) ==
    {[i \in 1..Len(w) |-> IF i \in U THEN ToUpperChar(w[i]) ELSE w[i]] :
        U \in SUBSET (1..Len(w))}

BoolInputs ==
    Casings(sTrue) \cup Casings(sYes) \cup Casings(sFalse)
    \cup Casings(<<"n", "o">>) \cup Casings(<<"o", "n">>)
    \cup Strings({"1", "0", " "}, MaxLen)

ListInputs ==
    Strings({"a", "b", ",", " "}, MaxLen)
    \cup { <<"a", ",", " ", "b", " ", ",", ",", "c">>,
           <<"\t", "a", " ", ",", "\n", ",", "a", "\t">> }

AltCoerce ==
    (<<"cli", "env">> :> {Typed(s) : s \in ListInputs})
    @@ (<<"cli", "dry-run">> :> {Typed(s) : s \in BoolInputs})
    @@ (<<"cli", "docker-build">> :> {Typed(s) : s \in BoolInputs})
    @@ (<<"cli", "auto-approve">> :> {Typed(s) : s \in BoolInputs})
    @@ NoAlt

InitCoerce ==
    \E c \in Vary(AltCoerce, 1, 1, Documented) :
        Start(c, [r \in Runs |-> CommandLine(c)], {1})

SpecCoerce == InitCoerce /\ [][Next]_vars

\* SpecHelm: invocation 1 is the whole run; invocation 2 is HelmRunner.Run
\* called on the loaded configuration by itself, as a caller of the package
\* can, so that no validator has looked at the values files before it.
AltHelm ==
    (<<"cli", "env">> :> {Typed(vStg), Typed(vStg \o sComma \o vPrd),
                          Typed(vPrd \o sComma \o vStg),
                          Typed(vStg \o sComma \o vPrd \o sComma \o vStg),
                          Typed(vStg \o sComma \o vOther),
                          Typed(vOther \o sComma \o vPrd \o sComma \o vOther)})
    @@ (<<"cli", "dry-run">> :> {Typed(sTrue)})
    @@ (<<"cli", "docker-build">> :> {Typed(sFalse)})
    @@ (<<"cli", "kubernetes-context">> :> {Typed(sEmpty), Typed(vOps)})
    @@ (<<"file", "env">> :> {YStr(vPrd \o sComma \o vStg)})
    @@ (<<"fs", "Dockerfile">> :> {Absent})
    @@ (<<"fs", "baseValues">> :> {Absent})
    @@ (<<"fs", "stgValues">> :> {Absent})
    @@ (<<"fs", "prdValues">> :> {Absent})
    @@ (<<"fs", "chartStateless">> :> {Absent})
    @@ NoAlt

InitHelm ==
    \E c \in Vary(AltHelm, 1, MaxVaried, Documented) :
        /\ Given(c, [r \in Runs |-> CommandLine(c)])
        /\ pc = [r \in Runs |-> IF r = 1 THEN "configure" ELSE "deploy"]
        /\ cfg = [r \in Runs |-> IF r = 1 THEN ZeroConfig
                                            ELSE LoadConfig(FlagSet(r)).cfg]
        /\ resolved = [r \in Runs |->
              [n \in FieldNames |->
                  IF r = 1 THEN sEmpty ELSE resolveFieldValue(FlagSet(r), FieldNamed(n))]]
        /\ results = [r \in Runs |-> <<>>]
        /\ imageTag = [r \in Runs |-> sEmpty]
        /\ valuesFiles = [r \in Runs |-> <<>>]
        /\ helmArgs = [r \in Runs |-> <<>>]
        /\ procs = [r \in Runs |-> <<>>]
        /\ planned = [r \in Runs |-> <<>>]
        /\ stages = [r \in Runs |-> <<>>]
        /\ err = [r \in Runs |-> NoErr]
        /\ exitCode = [r \in Runs |-> -1]

SpecHelm == InitHelm /\ [][Next]_vars

\* SpecDocker: invocation 1 is the whole run; invocation 2 enters the
\* pipeline at DockerRunner.Run on the loaded configuration, so that no
\* validator has looked at the credentials or the fields before it.
AltDocker ==
    (<<"cli", "artifact-name">> :> {Typed(sEmpty)})
    @@ (<<"cli", "docker-namespace">> :> {Typed(sEmpty)})
    @@ (<<"cli", "docker-host">> :> {Typed(sEmpty)})
    @@ (<<"cli", "dry-run">> :> {Typed(sTrue)})
    @@ (<<"cli", "docker-build">> :> {Typed(sFalse)})
    @@ (<<"file", "docker.namespace">> :> {NotSet})
    @@ (<<"env", "REGISTRY_HOST">> :> {sEmpty})
    @@ (<<"env", "REGISTRY_USERNAME">> :> {sEmpty})
    @@ (<<"env", "REGISTRY_PASSWORD">> :> {sEmpty})
    @@ (<<"fs", "Dockerfile">> :> {Absent})
    @@ NoAlt

InitDocker ==
    \E c \in Vary(AltDocker, 1, MaxVaried, Documented) :
        /\ Given(c, [r \in Runs |-> CommandLine(c)])
        /\ pc = [r \in Runs |-> IF r = 1 THEN "configure" ELSE "image"]
        /\ cfg = [r \in Runs |-> IF r = 1 THEN ZeroConfig
                                            ELSE LoadConfig(FlagSet(r)).cfg]
        /\ resolved = [r \in Runs |->
              [n \in FieldNames |->
                  IF r = 1 THEN sEmpty ELSE resolveFieldValue(FlagSet(r), FieldNamed(n))]]
        /\ results = [r \in Runs |-> <<>>]
        /\ imageTag = [r \in Runs |-> sEmpty]
        /\ valuesFiles = [r \in Runs |-> <<>>]
        /\ helmArgs = [r \in Runs |-> <<>>]
        /\ procs = [r \in Runs |-> <<>>]
        /\ planned = [r \in Runs |-> <<>>]
        /\ stages = [r \in Runs |-> <<>>]
        /\ err = [r \in Runs |-> NoErr]
        /\ exitCode = [r \in Runs |-> -1]

SpecDocker == InitDocker /\ [][Next]_vars

\* SpecRace: one invocation, while something else in the project directory
\* (an editor, a checkout, a build script) creates or removes the Dockerfile.
\* os.Stat sees the file as it is at the moment of the call.
TouchDockerfile ==
    /\ \E r \in Runs : pc[r] \notin Terminal \cup {"idle"}
    /\ fs' = IF sDockerfile \in DOMAIN fs
             THEN [p \in DOMAIN fs \ {sDockerfile} |-> fs[p]]
             ELSE fs @@ (sDockerfile :> Text)
    /\ UNCHANGED <<cli, file, osenv, wd, tools, stdin, pc, cfg, resolved, results,
                   imageTag, valuesFiles, helmArgs, procs, planned, stages, err,
                   exitCode>>

NextRace == Next \/ TouchDockerfile

AltRace ==
    (<<"cli", "dry-run">> :> {Typed(sTrue)})
    @@ (<<"cli", "docker-build">> :> {Typed(sFalse)})
    @@ (<<"cli", "auto-approve">> :> {Typed(sTrue)})
    @@ (<<"cli", "env">> :> {Typed(vStg)})
    @@ (<<"env", "REGISTRY_HOST">> :> {sEmpty})
    @@ (<<"fs", "Dockerfile">> :> {Absent})
    @@ (<<"fs", "baseValues">> :> {Absent})
    @@ (<<"tool", "daemon">> :> {FALSE})
    @@ NoAlt

InitRace ==
    \E c \in Vary(AltRace, 1, MaxVaried, Documented) :
        Start(c, [r \in Runs |-> CommandLine(c)], {1})

SpecRace == InitRace /\ [][NextRace]_vars

---------------------------------------------------------------------------
(* Properties. *)

StageOrder == <<"configure", "confirm", "validate", "image", "deploy", "complete">>
StageNo(name) == CHOOSE i \in 1..Len(StageOrder) : StageOrder[i] = name
StageNames(r) == {stages[r][i].name : i \in 1..Len(stages[r])}
ExternalSteps == {"build", "login", "push", "deploy"}

\* C1: the stages of a run happen in the order configure, confirm (unless
\* skipped), validate, image workflow, deployment workflow, complete; a stage
\* starts only when every earlier stage succeeded; a failed stage is the last
\* stage of the run and the run exits non-zero; the run exits 0 only when
\* every stage succeeded.
C1_StagesInOrder ==
    \A r \in Runs :
        LET st == stages[r]
            n == Len(st)
        IN  /\ \A i \in 1..n : \E k \in 1..Len(StageOrder) : StageOrder[k] = st[i].name
            /\ n > 0 => st[1].name = "configure"
            /\ \A i \in 1..(n - 1) :
                  /\ st[i].status = "ok"
                  /\ \/ StageNo(st[i + 1].name) = StageNo(st[i].name) + 1
                     \/ st[i].name = "configure" /\ st[i + 1].name = "validate"
            /\ pc[r] = "failed" <=> (n > 0 /\ st[n].status = "failed")
            /\ pc[r] = "failed" => exitCode[r] = 1 /\ err[r] # NoErr
            /\ exitCode[r] = 0 <=>
                  /\ n > 0 /\ st[n].name = "complete"
                  /\ \A i \in 1..n : st[i].status = "ok"
                  /\ {"configure", "validate", "image", "deploy", "complete"}
                        \subseteq StageNames(r)
            /\ exitCode[r] = 0 => pc[r] = "done" /\ err[r] = NoErr
            /\ exitCode[r] = -1 <=> pc[r] \notin Terminal

\* a run went through all six stages, confirmation included, and exited 0
C1_Witness ==
    \E r \in Runs :
        /\ pc[r] = "done" /\ exitCode[r] = 0
        /\ [i \in 1..Len(stages[r]) |-> stages[r][i].name] = StageOrder

\* the six checks in the order section 4.3 of the specification lists them
ListedCheck(i, c) ==
    CASE i = 1 -> validateConfig(c)
      [] i = 2 -> validateHelmFlavour(c)
      [] i = 3 -> validateEnvVars(c)
      [] i = 4 -> validateEnvValueFiles(c)
      [] i = 5 -> validateKubeContext(c)
      [] OTHER -> validateTools(c)
FailingChecks(c) == {i \in 1..Len(CheckNames) : ListedCheck(i, c).err # NoErr}
ValidationEnded(r) ==
    \E i \in 1..Len(stages[r]) :
        stages[r][i].name = "validate" /\ stages[r][i].status # "running"

\* C4: ValidateAll runs required fields, flavour, registry credentials,
\* values files, cluster context, toolchain in that order and stops at the
\* first failing check: one result per executed check, only the last result
\* can carry an error, the error returned is that of the lowest-numbered
\* failing check, and no later check runs (the toolchain check is the only
\* one that spawns a process, docker info).
C4_FailFast ==
    \A r \in Runs :
        LET res == results[r]
            n == Len(res)
            failing == FailingChecks(cfg[r])
        IN  /\ \A i \in 1..n :
                  /\ res[i].Name = CheckNames[i]
                  /\ res[i].Err = ListedCheck(i, cfg[r]).err
            /\ \A i \in 1..(n - 1) : res[i].Err = NoErr
            /\ failing # {} => n <= SetMin(failing)
            /\ (\E i \in 1..Len(procs[r]) : procs[r][i].step = "validate")
                  => n = Len(CheckNames)
            /\ ValidationEnded(r) =>
                  IF failing = {}
                  THEN n = Len(CheckNames) /\ \A i \in 1..n : res[i].Err = NoErr
                  ELSE /\ n = SetMin(failing)
                       /\ pc[r] = "failed"
                       /\ err[r] = ListedCheck(n, cfg[r]).err

\* a configuration without flavour fails check 1 and check 2; check 1 is
\* reported and nothing else ran
C4_Witness ==
    \E r \in Runs :
        /\ {1, 2} \subseteq FailingChecks(cfg[r])
        /\ pc[r] = "failed"
        /\ Len(results[r]) = 1
        /\ err[r] = validateConfig(cfg[r]).err
        /\ procs[r] = <<>>

\* C5: in dry-run mode the build, authenticate, push and deploy steps spawn
\* no process.
C5_DryRunSpawnsNothing ==
    \A r \in Runs :
        cfg[r].DryRun =>
            \A i \in 1..Len(procs[r]) : procs[r][i].step \notin ExternalSteps

\* a dry run went through build, login, push and deploy: four commands are
\* planned and the only process is the validator's docker info
C5_Witness ==
    \E r \in Runs :
        /\ cfg[r].DryRun /\ pc[r] = "done"
        /\ [i \in 1..Len(planned[r]) |-> planned[r][i].step]
              = <<"build", "login", "push", "deploy">>
        /\ procs[r] = <<Proc("validate", <<sDocker, sInfo>>, sEmpty)>>

DeployRun(r) == {i \in 1..Len(procs[r]) : procs[r][i].step = "deploy"}
DeployPlan(r) == {i \in 1..Len(planned[r]) : planned[r][i].step = "deploy"}
OnlyDryRunDiffers ==
    /\ ~cfg[1].DryRun /\ cfg[2].DryRun
    /\ [cfg[2] EXCEPT !.DryRun = FALSE] = cfg[1]

\* C6: for two runs with the same configuration, files and environment that
\* differ only in dry-run, the deploy command the dry run plans is the
\* command the real run executes with the one element --dry-run appended.
C6_DryRunArgsMatch ==
    OnlyDryRunDiffers =>
        \A i \in DeployRun(1) : \A j \in DeployPlan(2) :
            planned[2][j].argv = Append(procs[1][i].argv, sDryRunFlag)

\* both runs reached the deploy command, with two values files and the image
\* overrides in it
C6_Witness ==
    /\ OnlyDryRunDiffers
    /\ DeployRun(1) # {} /\ DeployPlan(2) # {}
    /\ Len(valuesFiles[1]) >= 2
    /\ \E k \in 1..Len(helmArgs[1]) : helmArgs[1][k] = sImageTagLatest

Configured(r) == pc[r] \notin {"idle", "configure"}
Member(r, i) == TitleName(FieldTable[i].Name)
Kind(i) == StructKind[TitleName(FieldTable[i].Name)]
Coerced(kind, str) ==
    CASE kind = "bool" -> parseBool(str)
      [] kind = "slice" -> parseList(str, sComma)
      [] OTHER -> str

\* what the configuration file says for field i, in the type of the field: a
\* YAML sequence for a list field and a YAML boolean for a boolean field are
\* the value itself, a scalar is coerced like a flag value
FileValue(i) ==
    LET y == file[FieldTable[i].ConfigPath]
    IN  IF y.t = "list" /\ Kind(i) = "slice" THEN y.l
        ELSE IF y.t = "bool" /\ Kind(i) = "bool" THEN y.b
        ELSE Coerced(Kind(i), GetString(FieldTable[i].ConfigPath))

\* C2: for every field independently, the resolved value is the flag's value
\* when the user supplied the flag, otherwise the value of the configuration
\* file when the field's path is present there, otherwise the default.
C2_Precedence ==
    \A r \in Runs :
        Configured(r) =>
            \A i \in FieldIdx :
                cfg[r][Member(r, i)] =
                    IF cli[r][FieldTable[i].Flag].touched
                    THEN Coerced(Kind(i), cli[r][FieldTable[i].Flag].value)
                    ELSE IF file[FieldTable[i].ConfigPath] # NotSet
                    THEN FileValue(i)
                    ELSE Coerced(Kind(i), DefaultOf(FieldTable[i].Name))

\* C3: the command-line tier applies to a field exactly when the user touched
\* the flag: a touched flag gives the resolved string whatever its value (its
\* default included), an untouched flag leaves a present configuration-file
\* value in place although the flag holds the default string.
C3_TouchedDecides ==
    \A r \in Runs :
        Configured(r) =>
            \A i \in FieldIdx :
                LET f == FieldTable[i]
                IN  /\ cli[r][f.Flag].touched =>
                          resolved[r][f.Name] = cli[r][f.Flag].value
                    /\ (~cli[r][f.Flag].touched /\ IsSet(f.ConfigPath)) =>
                          resolved[r][f.Name] = GetString(f.ConfigPath)

\* a flag typed with its own, non-empty default wins over a different value
\* in the configuration file
C3_Witness ==
    \E r \in Runs : \E i \in FieldIdx :
        LET f == FieldTable[i]
        IN  /\ Configured(r)
            /\ cli[r][f.Flag].touched
            /\ cli[r][f.Flag].value = DefaultOf(f.Name)
            /\ DefaultOf(f.Name) # sEmpty
            /\ IsSet(f.ConfigPath)
            /\ GetString(f.ConfigPath) # DefaultOf(f.Name)
            /\ cfg[r][Member(r, i)] = Coerced(Kind(i), DefaultOf(f.Name))

BoolFields == {i \in FieldIdx : Kind(i) = "bool"}

\* C7: a boolean field is true exactly when its string is "true", "1" or
\* "yes" in any letter case.
C7_BoolIgnoresCase ==
    \A r \in Runs :
        Configured(r) =>
            \A i \in BoolFields :
                cfg[r][Member(r, i)] =
                    (ToLower(resolved[r][FieldTable[i].Name]) \in {sTrue, sOne, sYes})

\* The list the claim describes, by positions: the segments between the
\* commas, each cut down to the span between its first and last character
\* that is no whitespace, the empty ones left out.
CommasOf(s) == {i \in 1..Len(s) : s[i] = ","}
CutAt(s, k) ==
    IF k = 0 THEN 0
    ELSE IF k > Cardinality(CommasOf(s)) THEN Len(s) + 1
    ELSE CHOOSE i \in CommasOf(s) : Cardinality({j \in CommasOf(s) : j < i}) = k - 1
SegmentOf(s, k) == SubSeq(s, CutAt(s, k - 1) + 1, CutAt(s, k) - 1)
Stripped(seg) ==
    LET ink == {i \in 1..Len(seg) : seg[i] \notin WhiteSpace}
    IN  IF ink = {} THEN <<>>
        ELSE SubSeq(seg, SetMin(ink), CHOOSE i \in ink : \A j \in ink : j <= i)
NonEmpty(x) == x # <<>>
SegmentsKept(s) ==
    SelectSeq([k \in 1..(Cardinality(CommasOf(s)) + 1) |-> Stripped(SegmentOf(s, k))],
              NonEmpty)

\* C8: a list field holds the comma-separated segments of its string, each
\* trimmed of whitespace, the empty ones dropped, in their original order and
\* with duplicates kept.
C8_ListCoercion ==
    \A r \in Runs :
        Configured(r) => cfg[r].Env = SegmentsKept(resolved[r]["env"])

\* --env="a, b ,,c" gives [a, b, c]
C8_Witness ==
    \E r \in Runs :
        /\ Configured(r)
        /\ resolved[r]["env"] = <<"a", ",", " ", "b", " ", ",", ",", "c">>
        /\ cfg[r].Env = << <<"a">>, <<"b">>, <<"c">> >>

IsEnvVarError(e) ==
    e # NoErr /\ e[1].msg = "required environment variable is not set"

\* C9: a run with docker-build=false does not fail because REGISTRY_USERNAME
\* or REGISTRY_PASSWORD is unset.
C9_CredentialsOnlyWhenBuilding ==
    \A r \in Runs :
        (Configured(r) /\ ~cfg[r].RunDockerBuild /\ pc[r] = "failed")
            => ~IsEnvVarError(err[r])

PasswordCase(r) ==
    /\ Configured(r)
    /\ Getenv("REGISTRY_PASSWORD") = sEmpty
    /\ cfg[r].RunDockerBuild
    /\ validateConfig(cfg[r]).err = NoErr
    /\ validateHelmFlavour(cfg[r]).err = NoErr

FailsAtCheck3Naming(r, var) ==
    /\ StageNames(r) \cap {"image", "deploy"} = {}
    /\ Len(results[r]) <= 3
    /\ Len(results[r]) = 2 => pc[r] = "validate"
    /\ Len(results[r]) = 3 =>
          /\ pc[r] = "failed"
          /\ results[r][3].Name = "Environment variables"
          /\ IsEnvVarError(results[r][3].Err)
          /\ results[r][3].Err[1].key = var
          /\ err[r] = results[r][3].Err

\* C10 as claimed: with REGISTRY_PASSWORD empty, docker.build true and checks
\* 1 and 2 passing, validation fails at check 3 with an error naming
\* REGISTRY_PASSWORD, and neither workflow starts.
C10_NamesPassword ==
    \A r \in Runs : PasswordCase(r) => FailsAtCheck3Naming(r, "REGISTRY_PASSWORD")

\* C10 as amended: the same, when REGISTRY_USERNAME is set.
C10_NamesPasswordWhenUserSet ==
    \A r \in Runs :
        (PasswordCase(r) /\ Getenv("REGISTRY_USERNAME") # sEmpty)
            => FailsAtCheck3Naming(r, "REGISTRY_PASSWORD")

\* validation ran into check 3 with only the password missing
C10_Witness ==
    \E r \in Runs :
        /\ PasswordCase(r) /\ Getenv("REGISTRY_USERNAME") # sEmpty
        /\ pc[r] = "failed" /\ Len(results[r]) = 3
        /\ err[r] = Errorf("required environment variable is not set",
                           "REGISTRY_PASSWORD", sEmpty)

ImageSteps == {"build", "login", "push"}
ImageProcs(r) == {i \in 1..Len(procs[r]) : procs[r][i].step \in ImageSteps}
ImagePlans(r) == {i \in 1..Len(planned[r]) : planned[r][i].step \in ImageSteps}
StageStatus(r, name) ==
    stages[r][CHOOSE i \in 1..Len(stages[r]) : stages[r][i].name = name].status
\* run-image-build is false or the project root has no Dockerfile
SkipCondition(r) == ~cfg[r].RunDockerBuild \/ sDockerfile \notin DOMAIN fs

HasPrefix(s, p) == Len(s) >= Len(p) /\ SubSeq(s, 1, Len(p)) = p
pImageRepository == <<"i", "m", "a", "g", "e", ".", "r", "e", "p", "o", "s", "i", "t", "o", "r", "y", "=">>
pImageTag == <<"i", "m", "a", "g", "e", ".", "t", "a", "g", "=">>
IsImageOverride(a) == HasPrefix(a, pImageRepository) \/ HasPrefix(a, pImageTag)
\* the deploy command was constructed: executed or simulated
DeployBuilt(r) == DeployRun(r) # {} \/ DeployPlan(r) # {}
ExpectedOverrides(r) ==
    << <<"-", "-", "s", "e", "t">>,
       pImageRepository \o cfg[r].DockerHost \o <<"/">> \o cfg[r].DockerNamespace
           \o <<"/">> \o cfg[r].ArtifactName,
       <<"-", "-", "s", "e", "t">>,
       pImageTag \o <<"l", "a", "t", "e", "s", "t">> >>
Contains(args, sub) ==
    \E i \in 0..(Len(args) - Len(sub)) : SubSeq(args, i + 1, i + Len(sub)) = sub

\* C12: a constructed deploy argument vector holds the two overrides
\* --set image.repository=<host>/<namespace>/<artifact> and
\* --set image.tag=latest when run-image-build is true and a Dockerfile
\* exists, and no image.repository or image.tag override otherwise.
C12_ImageOverrides ==
    \A r \in Runs :
        DeployBuilt(r) =>
            IF SkipCondition(r)
            THEN \A i \in 1..Len(helmArgs[r]) : ~IsImageOverride(helmArgs[r][i])
            ELSE /\ Contains(helmArgs[r], ExpectedOverrides(r))
                 /\ Cardinality({i \in 1..Len(helmArgs[r]) :
                                    IsImageOverride(helmArgs[r][i])}) = 2

\* docker.build=false and no Dockerfile: the image workflow ran nothing and
\* the deploy command carries no override
C12_Witness ==
    \E r \in Runs :
        /\ pc[r] = "done"
        /\ ~cfg[r].RunDockerBuild /\ sDockerfile \notin DOMAIN fs
        /\ ImageProcs(r) = {} /\ ImagePlans(r) = {}
        /\ DeployBuilt(r)
        /\ \A i \in 1..Len(helmArgs[r]) : ~IsImageOverride(helmArgs[r][i])

ValuesFileOf(env) ==
    <<".", "d", "o", "c", "k", "w", "r", "i", "g", "h", "t", "/", "h", "e", "l", "m", "/">>
    \o env \o <<".", "v", "a", "l", "u", "e", "s", ".", "y", "a", "m", "l">>
BaseValuesFile ==
    <<".", "d", "o", "c", "k", "w", "r", "i", "g", "h", "t", "/", "h", "e", "l", "m", "/",
      "v", "a", "l", "u", "e", "s", ".", "y", "a", "m", "l">>
MissingEnvs(r) ==
    {i \in 1..Len(cfg[r].Env) : ValuesFileOf(cfg[r].Env[i]) \notin DOMAIN fs}
\* the deployment workflow ran and found its chart, so collection took place
Collected(r) ==
    /\ "deploy" \in StageNames(r)
    /\ Join(<<sChartsRoot, cfg[r].HelmFlavour>>) \in DOMAIN fs

\* C13: values-file collection gives the base file first when it exists and
\* then the file of each requested environment in request order, duplicates
\* included; when the file of a requested environment is missing the workflow
\* fails with the error of the first missing one, and no deploy argument
\* vector exists and no deploy command is run or simulated.
C13_ValuesCollection ==
    \A r \in Runs :
        Collected(r) =>
            IF MissingEnvs(r) = {}
            THEN valuesFiles[r] =
                    (IF BaseValuesFile \in DOMAIN fs THEN <<BaseValuesFile>> ELSE <<>>)
                    \o [i \in 1..Len(cfg[r].Env) |-> ValuesFileOf(cfg[r].Env[i])]
            ELSE /\ pc[r] = "failed"
                 /\ err[r] = Wrap("helm workflow failed",
                                  Wrap("failed to collect values files",
                                       Errorf("environment values file not found at path", "",
                                              ValuesFileOf(cfg[r].Env[SetMin(MissingEnvs(r))]))))
                 /\ valuesFiles[r] = <<>> /\ helmArgs[r] = <<>>
                 /\ DeployRun(r) = {} /\ DeployPlan(r) = {}

\* env = [stg, prd] with the file of prd missing: HelmRunner.Run has failed
\* before it constructed a command
C13_Witness ==
    /\ cfg[2].Env = <<vStg, vPrd>>
    /\ ValuesFileOf(vStg) \in DOMAIN fs /\ ValuesFileOf(vPrd) \notin DOMAIN fs
    /\ Collected(2) /\ pc[2] = "failed"
    /\ helmArgs[2] = <<>> /\ DeployRun(2) = {} /\ DeployPlan(2) = {}

NthOf(S, k) == CHOOSE i \in S : Cardinality({j \in S : j < i}) = k - 1
ValuesAt(r) ==
    {i \in 1..Len(helmArgs[r]) : helmArgs[r][i] = <<"-", "-", "v", "a", "l", "u", "e", "s">>}
OverridesAt(r) == {i \in 1..Len(helmArgs[r]) : IsImageOverride(helmArgs[r][i])}

\* C14: in a constructed deploy argument vector every image override, with
\* its --set, comes after every --values flag and its file, and the --values
\* flags carry the collected values files in collection order.
C14_OverridesLast ==
    \A r \in Runs :
        DeployBuilt(r) =>
            /\ \A i \in ValuesAt(r) : \A j \in OverridesAt(r) : i + 1 < j - 1
            /\ \A j \in OverridesAt(r) : helmArgs[r][j - 1] = <<"-", "-", "s", "e", "t">>
            /\ Cardinality(ValuesAt(r)) = Len(valuesFiles[r])
            /\ \A k \in 1..Len(valuesFiles[r]) :
                  helmArgs[r][NthOf(ValuesAt(r), k) + 1] = valuesFiles[r][k]

\* a deploy command with the base file, two environment files and both
\* overrides
C14_Witness ==
    \E r \in Runs :
        /\ DeployBuilt(r)
        /\ valuesFiles[r] = <<BaseValuesFile, ValuesFileOf(vPrd), ValuesFileOf(vStg)>>
        /\ Cardinality(ValuesAt(r)) = 3
        /\ Cardinality(OverridesAt(r)) = 2

\* Under Spec invocation 2 never starts: its standard input is the input as
\* it was offered to invocation 1.
Offered == stdin[2]
NewlinesIn(s) == {i \in 1..Len(s) : s[i] = "\n"}
GateOpen(r) == cfg[r].AutoApprove \/ cfg[r].DryRun
PastConfirm(r) == pc[r] \notin {"idle", "configure", "confirm"}
ValidationStarted(r) == "validate" \in StageNames(r) \/ results[r] # <<>>

\* C15: the confirmation gate is passed without a read exactly when
\* auto-approve or dry-run is set; otherwise validation starts only after one
\* line, and no more, was taken from standard input, whatever the line says,
\* and the run fails at the gate exactly when the input ends before a line
\* was read.
C15_ConfirmationGate ==
    /\ pc[1] \in {"configure", "confirm"} => ~ValidationStarted(1) /\ stdin[1] = Offered
    /\ PastConfirm(1) =>
          IF GateOpen(1)
          THEN "confirm" \notin StageNames(1) /\ stdin[1] = Offered
          ELSE IF NewlinesIn(Offered) # {}
          THEN /\ StageStatus(1, "confirm") = "ok"
               /\ stdin[1] = SubSeq(Offered, SetMin(NewlinesIn(Offered)) + 1, Len(Offered))
               /\ pc[1] = "validate" \/ ValidationStarted(1)
          ELSE /\ StageStatus(1, "confirm") = "failed"
               /\ pc[1] = "failed" /\ ~ValidationStarted(1)
               /\ err[1] = Wrap("failed to read user input", Errorf("EOF", "", sEmpty))

\* a real run without auto-approve that was answered "n" and went through
C15_Witness ==
    /\ ~GateOpen(1)
    /\ Offered = <<"n", "\n">>
    /\ stdin[1] = <<>>
    /\ pc[1] = "done"

FailedStage(r) == stages[r][Len(stages[r])].name
\* the errors the component that ran the failing stage can have returned to
\* runDeploy
Raised(r) ==
    CASE FailedStage(r) = "configure" -> {LoadConfig(FlagSet(r)).err}
      [] FailedStage(r) = "confirm" -> {ReadString(Offered).err}
      [] FailedStage(r) = "validate" -> {results[r][Len(results[r])].Err}
      [] FailedStage(r) = "image" ->
            {ImageTag(cfg[r]).err,
             Wrap("docker build failed", ExitError),
             Wrap("docker push failed", ExitError)}
            \cup {Wrap("docker login failed", login(cfg[r], o).err) :
                    o \in {"ok", "start", "wait"}}
      [] OTHER -> {helmPrepare(cfg[r]).err, Wrap("helm deployment failed", ExitError)}

\* C16: the error with which a run fails is the error value that the failing
\* component returned to the driver, with nothing added or changed.
C16_ErrorsUnmodified ==
    \A r \in Runs :
        pc[r] = "failed" => err[r] # NoErr /\ err[r] \in Raised(r)

Password == osenv["REGISTRY_PASSWORD"]
Within(s, sub) == \E i \in 0..(Len(s) - Len(sub)) : SubSeq(s, i + 1, i + Len(sub)) = sub
Shows(argv, secret) == \E i \in 1..Len(argv) : Within(argv[i], secret)

\* C17: when a registry password is set it is part of no argument of any
\* spawned process and of no planned command; the only process that is given
\* input is docker login, and its input is the password and a newline.
C17_PasswordNotInArgv ==
    \A r \in Runs :
        Password # <<>> =>
            /\ \A i \in 1..Len(procs[r]) :
                  /\ ~Shows(procs[r][i].argv, Password)
                  /\ procs[r][i].stdin =
                        IF procs[r][i].step = "login" THEN Password \o <<"\n">> ELSE <<>>
            /\ \A i \in 1..Len(planned[r]) : ~Shows(planned[r][i].argv, Password)

\* a real run that logged in and completed
C17_Witness ==
    \E r \in Runs :
        /\ Password # <<>>
        /\ \E i \in 1..Len(procs[r]) :
              /\ procs[r][i].step = "login"
              /\ procs[r][i].stdin = Password \o <<"\n">>
              /\ Len(procs[r][i].argv) = 6
        /\ pc[r] = "done"

MinOf(a, b) == IF a < b THEN a ELSE b
IsExitError(e) == \E i \in 1..Len(e) : e[i].msg = "exit status 1"

\* C18: for two runs that differ in dry-run only, ValidateAll gives the same
\* results, check by check, and so the same first error; and a dry run
\* spawns no build, login, push or deploy process and never fails with the
\* exit error of an external tool.
C18_ValidationIgnoresDryRun ==
    /\ (Configured(1) /\ Configured(2) /\ OnlyDryRunDiffers) =>
          /\ \A i \in 1..MinOf(Len(results[1]), Len(results[2])) :
                results[1][i] = results[2][i]
          /\ (ValidationEnded(1) /\ ValidationEnded(2)) =>
                /\ results[1] = results[2]
                /\ (pc[1] = "failed" /\ FailedStage(1) = "validate") =>
                      (pc[2] = "failed" /\ err[2] = err[1])
    /\ \A r \in Runs :
          (Configured(r) /\ cfg[r].DryRun) =>
              /\ \A i \in 1..Len(procs[r]) : procs[r][i].step \notin ExternalSteps
              /\ pc[r] = "failed" => ~IsExitError(err[r])

\* the real run and the dry run both stopped at the same failing check
C18_Witness ==
    /\ OnlyDryRunDiffers
    /\ ValidationEnded(1) /\ ValidationEnded(2)
    /\ pc[1] = "failed" /\ pc[2] = "failed"
    /\ Len(results[1]) > 2
    /\ results[1][Len(results[1])].Err # NoErr
    /\ err[2] = err[1]

WorkflowOrder == <<"build", "login", "push">>
IsPrefix(a, b) == Len(a) <= Len(b) /\ a = SubSeq(b, 1, Len(a))
\* the image steps that spawned a process, and those that were simulated, in
\* the order in which they happened
ImageTrace(r) ==
    [k \in 1..Cardinality(ImageProcs(r)) |-> procs[r][NthOf(ImageProcs(r), k)]]
PlanTrace(r) ==
    [k \in 1..Cardinality(ImagePlans(r)) |-> planned[r][NthOf(ImagePlans(r), k)].step]
StepsOf(t) == [k \in 1..Len(t) |-> t[k].step]
\* the error DockerRunner.Run returned, under the frame runDeploy added
WorkflowError(r) == Tail(err[r])

\* C19: the image steps happen in the order build, authenticate, push, each
\* at most once; a step is followed by another only if its process exited
\* with status 0; when the workflow fails, no step follows the failing one
\* and the error it returns begins with the prefix of the step that failed.
C19_StepOrder ==
    \A r \in Runs :
        LET t == ImageTrace(r)
            p == PlanTrace(r)
        IN  /\ IsPrefix(StepsOf(t), WorkflowOrder) /\ IsPrefix(p, WorkflowOrder)
            /\ t = <<>> \/ p = <<>>
            /\ \A k \in 1..(Len(t) - 1) : t[k].exit = 0
            /\ pc[r] = "build" => t = <<>> /\ p = <<>>
            /\ pc[r] = "login" => StepsOf(t) \o p = <<"build">>
            /\ pc[r] = "push" => StepsOf(t) \o p = <<"build", "login">>
            /\ (pc[r] \in {"deploy", "complete", "done"} /\ ~SkipCondition(r)) =>
                  /\ StepsOf(t) \o p = WorkflowOrder
                  /\ \A k \in 1..Len(t) : t[k].exit = 0
            /\ (pc[r] = "failed" /\ FailedStage(r) = "image") =>
                  LET e == WorkflowError(r)
                  IN  CASE e[1].msg = "docker build failed" ->
                              StepsOf(t) = <<"build">> /\ t[1].exit = 1
                        [] e[1].msg = "docker login failed" ->
                              \/ StepsOf(t) = <<"build">> /\ t[1].exit = 0
                              \/ StepsOf(t) = <<"build", "login">> /\ t[2].exit = 1
                        [] e[1].msg = "docker push failed" ->
                              StepsOf(t) = WorkflowOrder /\ t[3].exit = 1
                        [] OTHER ->
                              t = <<>> /\ p = <<>> /\ e = ImageTag(cfg[r]).err

\* docker login exited non-zero after a successful build: nothing was pushed
C19_Witness ==
    \E r \in Runs :
        /\ pc[r] = "failed" /\ FailedStage(r) = "image"
        /\ StepsOf(ImageTrace(r)) = <<"build", "login">>
        /\ ImageTrace(r)[1].exit = 0 /\ ImageTrace(r)[2].exit = 1
        /\ WorkflowError(r)[1].msg = "docker login failed"
        /\ "deploy" \notin StageNames(r)

IsContextError(e) ==
    /\ e # NoErr
    /\ e[1].msg = "configuration error: required field is not set"
    /\ e[1].key = "kubernetesContext"

\* C20: with no cluster context name configured, no check of ValidateAll
\* fails because the name is empty, check 5 passes when it is reached, and a
\* constructed deploy argument vector has no --kube-context flag.
C20_EmptyContextPasses ==
    \A r \in Runs :
        (Configured(r) /\ cfg[r].KubernetesContext = <<>>) =>
            /\ \A i \in 1..Len(results[r]) : ~IsContextError(results[r][i].Err)
            /\ Len(results[r]) >= 5 => results[r][5].Err = NoErr
            /\ DeployBuilt(r) =>
                  \A i \in 1..Len(helmArgs[r]) :
                      helmArgs[r][i] # <<"-", "-", "k", "u", "b", "e", "-", "c", "o", "n", "t", "e", "x", "t">>

CredentialMissing ==
    osenv["REGISTRY_USERNAME"] = <<>> \/ osenv["REGISTRY_PASSWORD"] = <<>>
CredentialError ==
    Errorf("REGISTRY_USERNAME and REGISTRY_PASSWORD environment variables must be set for Docker login", "", sEmpty)
StepsDone(r) ==
    {procs[r][i].step : i \in 1..Len(procs[r])}
    \cup {planned[r][i].step : i \in 1..Len(planned[r])}

\* C21: with REGISTRY_USERNAME or REGISTRY_PASSWORD empty, in a real and in
\* a dry run alike, no login command and no push command is ever spawned or
\* planned, the workflow never gets past the authenticate step, and once the
\* build step has succeeded or was simulated the authenticate step fails the
\* run with its own credential error.
C21_LoginChecksCredentials ==
    \A r \in Runs :
        (CredentialMissing /\ "image" \in StageNames(r) /\ ~SkipCondition(r)) =>
            /\ StepsDone(r) \cap {"login", "push", "deploy"} = {}
            /\ pc[r] \in {"build", "login", "failed"}
            /\ (pc[r] = "failed" /\ "build" \in StepsDone(r)
                  /\ \A i \in ImageProcs(r) : procs[r][i].exit = 0) =>
                  err[r] = Wrap("docker workflow failed",
                                Wrap("docker login failed", CredentialError))

\* a dry run entered at the image workflow with no password: build was
\* planned, login failed, nothing else happened
C21_Witness ==
    /\ osenv["REGISTRY_PASSWORD"] = <<>> /\ osenv["REGISTRY_USERNAME"] # <<>>
    /\ cfg[2].DryRun
    /\ pc[2] = "failed"
    /\ StepsDone(2) = {"build"}
    /\ err[2] = Wrap("docker workflow failed", Wrap("docker login failed", CredentialError))

\* C22: when --env is not given and the configuration file declares env as
\* a YAML list of strings, the resolved list of environments is that list in
\* the order of the file.
C22_EnvListFromFile ==
    \A r \in Runs :
        (Configured(r) /\ ~cli[r]["env"].touched /\ file["env"].t = "list")
            => cfg[r].Env = file["env"].l

DerivationError ==
    Errorf("dockerHost, dockerNamespace, and artifactName must all be set to generate image repository", "", sEmpty)
ValidationPassed(r) ==
    Len(results[r]) = 6 /\ \A i \in 1..6 : results[r][i].Err = NoErr

\* C23: after a successful validation with run-image-build true and a
\* Dockerfile present, registry host, registry namespace and artifact name
\* are non-empty, and the run does not fail on the derivation of the image
\* repository.
C23_RepositoryDerivable ==
    \A r \in Runs :
        (ValidationPassed(r) /\ ~SkipCondition(r)) =>
            /\ cfg[r].DockerHost # <<>>
            /\ cfg[r].DockerNamespace # <<>>
            /\ cfg[r].ArtifactName # <<>>
            /\ pc[r] = "failed" => err[r][Len(err[r])] # DerivationError[1]

\* the image workflow of the run ended without a step run or simulated
ImageSkipped(r) ==
    /\ "image" \in StageNames(r)
    /\ StageStatus(r, "image") = "ok"
    /\ StepsDone(r) \cap ImageSteps = {}
ImagePerformed(r) == ImageSteps \subseteq StepsDone(r)

\* C24: also when the Dockerfile appears or disappears during the run, a
\* constructed deploy argument vector has image overrides only if build,
\* authenticate and push of the same run were executed or simulated, and has
\* none if the image workflow was skipped.
C24_OverridesFollowWorkflow ==
    \A r \in Runs :
        DeployBuilt(r) =>
            /\ OverridesAt(r) # {} => ImagePerformed(r)
            /\ ImageSkipped(r) => OverridesAt(r) = {}

\* C25: from the moment LoadConfig has returned, no step of the run changes
\* a field of the configuration.
C25_ConfigImmutable ==
    [][\A r \in Runs : Configured(r) => cfg'[r] = cfg[r]]_vars

\* a run that went through the gate, the validator and both workflows and
\* still holds the configuration LoadConfig produced
C25_Witness ==
    \E r \in Runs :
        /\ pc[r] = "done"
        /\ "confirm" \in StageNames(r)
        /\ ImagePerformed(r) /\ DeployBuilt(r)
        /\ cfg[r] = LoadConfig(FlagSet(r)).cfg
        /\ cfg[r] # ZeroConfig

InstallRoot ==
    <<"/", "u", "s", "r", "/", "l", "o", "c", "a", "l", "/", "s", "h", "a", "r", "e", "/",
      "d", "o", "c", "k", "w", "r", "i", "g", "h", "t", "/", "c", "h", "a", "r", "t", "s">>
Flavours == {<<"s", "t", "a", "t", "e", "f", "u", "l">>,
             <<"s", "t", "a", "t", "e", "l", "e", "s", "s">>}
ChartPaths == {InstallRoot \o <<"/">> \o f : f \in Flavours}
InWorkflows(r) ==
    \/ pc[r] \in {"image", "build", "login", "push", "deploy", "complete", "done"}
    \/ StageNames(r) \cap {"image", "deploy"} # {}

====
